---------------------------- MODULE Spec2Model ----------------------------
(***************************************************************************)
(* A model of uwcourses.py: the text -> Course record parsers              *)
(* (parse_credits, parse_prerequisites, parse_offered, parse_course), the  *)
(* per-department loop of get_courses, the assembly loop of                *)
(* extract_courses and the sort of export_courses.                         *)
(*                                                                         *)
(* Python strings are TLA+ strings; a character is a string of length 1    *)
(* (SubSeq(s, i, i)).  A Python list is a sequence, a Python set a set.    *)
(* An exception is a value: a function result carries the name of the      *)
(* exception it raised ("" when it returned).                              *)
(***************************************************************************)
EXTENDS Integers, Sequences, FiniteSets, TLC

VARIABLES
  pc,                \* position of the program (or of the function under test)
  campuses,          \* extract_courses: argument campuses
  department_links,  \* extract_courses: argument department_links (<<>>: None)
  ci,                \* extract_courses: index of the campus of the for loop
  depts,             \* extract_courses: depts of the current campus
  di,                \* list comprehension: index of the next department
  results,           \* list comprehension: get_courses' return values so far
  items,             \* get_courses: the <p> nodes of the page (blocks)
  idx,               \* get_courses: index of the next item of the for loop
  dept_courses,      \* get_courses: local list courses
  courses,           \* extract_courses: list courses
  output,            \* export_courses: rows written to the csv writer
  error,             \* the exception that ended the run ("" when none)
  fetched,           \* number of course blocks served so far by the site
  arg,               \* function specifications: the argument
  ret                \* function specifications: the result

vars == <<pc, campuses, department_links, ci, depts, di, results, items, idx,
          dept_courses, courses, output, error, fetched, arg, ret>>

pipeline_vars == <<campuses, department_links, ci, depts, di, results, items,
                   idx, dept_courses, courses, output, error, fetched>>

----------------------------------------------------------------------------
(* Bounds of the model *)

\* longest credit expression handed to parse_credits
MaxCreditLen == 4
\* most parts a description text of the decoder specification is made of
MaxTextParts == 4
\* most parts a description text of the offered specification is made of
MaxOfferedParts == 3
\* most course blocks the site serves in one run
MaxBlocks == 3
\* most parts of the knowledge-area expression of a title line
MaxAreaParts == 3
\* most body fragments of a course block of the parse_course specification
MaxFragments == 3

----------------------------------------------------------------------------
(* Python str: characters, comparison, searching *)

\* The printable ASCII characters in code point order, 32 (the space) to 95
\* and 97 to 126: str comparison is by code point.  (96, the backquote, cannot
\* be written in a TLA+ string and is no character of the model.)
AsciiLow == " !\"#$%&'()*+,-./0123456789:;<=>?@ABCDEFGHIJKLMNOPQRSTUVWXYZ[\\]^_"

AsciiHigh == "abcdefghijklmnopqrstuvwxyz{|}~"

Char(s, i) == SubSeq(s, i, i)

Chars == {Char(AsciiLow, i) : i \in 1..Len(AsciiLow)}
           \cup {Char(AsciiHigh, i) : i \in 1..Len(AsciiHigh)}

\* ord(c) and chr(n)
OrdTable ==
  [c \in Chars |->
     IF \E i \in 1..Len(AsciiLow) : Char(AsciiLow, i) = c
     THEN 31 + (CHOOSE i \in 1..Len(AsciiLow) : Char(AsciiLow, i) = c)
     ELSE 96 + (CHOOSE i \in 1..Len(AsciiHigh) : Char(AsciiHigh, i) = c)]

Ord(c) == OrdTable[c]

Chr(n) == IF n < 96 THEN Char(AsciiLow, n - 31) ELSE Char(AsciiHigh, n - 96)

Digits == {"0", "1", "2", "3", "4", "5", "6", "7", "8", "9"}

\* the regular expression class \d
IsDigit(c) == c \in Digits

\* the regular expression class [A-Z& ]
DeptChars == {"&", " "} \cup {c \in Chars : OrdTable[c] >= OrdTable["A"] /\ OrdTable[c] <= OrdTable["Z"]}

IsDeptChar(c) == c \in DeptChars

Max(S) == CHOOSE m \in S : \A k \in S : k <= m

Min(S) == CHOOSE m \in S : \A k \in S : m <= k

\* a < b for str: the first differing character decides, a proper prefix is
\* smaller
StrLess(a, b) ==
  LET n == IF Len(a) < Len(b) THEN Len(a) ELSE Len(b)
      D == {i \in 1..n : Char(a, i) # Char(b, i)}
  IN  IF D = {} THEN Len(a) < Len(b)
      ELSE Ord(Char(a, Min(D))) < Ord(Char(b, Min(D)))

\* s[i-1:] (1-based i)
From(s, i) == SubSeq(s, i, Len(s))

\* s.find(sub, from): the first index >= from where sub occurs, 0 when none
Find(s, sub, from) ==
  LET P == {i \in from..(Len(s) - Len(sub) + 1) : SubSeq(s, i, i + Len(sub) - 1) = sub}
  IN  IF P = {} THEN 0 ELSE Min(P)

\* sub in s
Contains(s, sub) == Find(s, sub, 1) # 0

\* s.split(sep): the pieces between the non-overlapping occurrences of sep,
\* found left to right
RECURSIVE Split(_, _)
Split(s, sep) ==
  LET p == Find(s, sep, 1)
  IN  IF p = 0 THEN <<s>>
      ELSE <<SubSeq(s, 1, p - 1)>> \o Split(From(s, p + Len(sep)), sep)

\* s.strip() (the only whitespace of the model is the space)
RECURSIVE Strip(_)
Strip(s) ==
  IF s = "" THEN s
  ELSE IF Char(s, 1) = " " THEN Strip(From(s, 2))
  ELSE IF Char(s, Len(s)) = " " THEN Strip(SubSeq(s, 1, Len(s) - 1))
  ELSE s

\* ''.join(list) and sep.join(list)
RECURSIVE Join(_, _)
Join(sep, list) ==
  IF list = <<>> THEN ""
  ELSE IF Len(list) = 1 THEN list[1]
  ELSE list[1] \o sep \o Join(sep, Tail(list))

\* the length of the run of decimal digits of s that starts at index i
RECURSIVE DigitRun(_, _)
DigitRun(s, i) ==
  IF i <= Len(s) /\ IsDigit(Char(s, i)) THEN 1 + DigitRun(s, i + 1) ELSE 0

\* the length of the run of [A-Z& ] characters of s that starts at index i
RECURSIVE DeptRun(_, _)
DeptRun(s, i) ==
  IF i <= Len(s) /\ IsDeptChar(Char(s, i)) THEN 1 + DeptRun(s, i + 1) ELSE 0

\* int(s) of a string of decimal digits
RECURSIVE IntOf(_)
IntOf(s) ==
  IF s = "" THEN 0
  ELSE 10 * IntOf(SubSeq(s, 1, Len(s) - 1)) + (Ord(Char(s, Len(s))) - Ord("0"))

\* str(n) of a non-negative int
RECURSIVE StrOf(_)
StrOf(n) ==
  LET d == Chr(Ord("0") + (n % 10))
  IN  IF n < 10 THEN d ELSE StrOf(n \div 10) \o d

\* sorted(list) of strings: a stable insertion sort, ascending
RECURSIVE InsertStr(_, _)
InsertStr(sorted, x) ==
  IF sorted = <<>> THEN <<x>>
  ELSE IF StrLess(x, Head(sorted)) THEN <<x>> \o sorted
  ELSE <<Head(sorted)>> \o InsertStr(Tail(sorted), x)

RECURSIVE SortedStrs(_)
SortedStrs(list) ==
  IF list = <<>> THEN <<>>
  ELSE InsertStr(SortedStrs(SubSeq(list, 1, Len(list) - 1)), list[Len(list)])

\* sorted(set) of strings
RECURSIVE SortedSet(_)
SortedSet(S) ==
  IF S = {} THEN <<>>
  ELSE LET m == CHOOSE x \in S : \A y \in S : y = x \/ StrLess(x, y)
       IN  <<m>> \o SortedSet(S \ {m})

Range(list) == {list[i] : i \in 1..Len(list)}

\* all the sequences of at most n elements of S
RECURSIVE SeqsUpTo(_, _)
SeqsUpTo(S, n) ==
  IF n = 0 THEN {<<>>}
  ELSE LET shorter == SeqsUpTo(S, n - 1)
       IN  shorter \cup {Append(q, x) : q \in {r \in shorter : Len(r) = n - 1}, x \in S}

----------------------------------------------------------------------------
(* Python values: None, int, exceptions *)

None == [some |-> FALSE, val |-> 0]

Some(n) == [some |-> TRUE, val |-> n]

\* a function's outcome: it returned list val, or raised exception raised
Returned(v) == [raised |-> "", val |-> v]

Raised(e) == [raised |-> e, val |-> <<>>]

----------------------------------------------------------------------------
(* parse_credits *)

\* re.search(r'^(\d+)(?![-/])', s): the length of group 1, 0 when there is no
\* match.  \d+ is greedy and backtracks: the engine takes the longest prefix
\* of the leading digit run after which the lookahead succeeds.
CreditsMatch(s) ==
  LET n == DigitRun(s, 1)
      K == {k \in 1..n : ~(k < Len(s) /\ Char(s, k + 1) \in {"-", "/"})}
  IN  IF K = {} THEN 0 ELSE Max(K)

parse_credits(s) ==
  LET k == CreditsMatch(s)
  IN  IF k = 0 THEN None ELSE Some(IntOf(SubSeq(s, 1, k)))

----------------------------------------------------------------------------
(* parse_prerequisites *)

\* re.findall(r'([A-Z& ]+ \d+)', s) from index i on: the matches, left to
\* right, not overlapping.  At i the greedy [A-Z& ]+ takes the whole run of
\* class characters and gives back one: the match needs the run to end with a
\* space (the run's other characters are group text) and a digit after it.
RECURSIVE FindAllCodes(_, _)
FindAllCodes(s, i) ==
  IF i > Len(s) THEN <<>>
  ELSE LET r == DeptRun(s, i)
           d == DigitRun(s, i + r)
       IN  IF r >= 2 /\ Char(s, i + r - 1) = " " /\ d >= 1
           THEN <<SubSeq(s, i, i + r + d - 1)>> \o FindAllCodes(s, i + r + d)
           ELSE FindAllCodes(s, i + 1)

parse_prerequisites(course_description) ==
  IF ~Contains(course_description, "Prerequisite:") THEN Returned(<<>>)
  ELSE LET parts == Split(Split(course_description, "Offered:")[1], "Prerequisite:")
       IN  IF Len(parts) < 2 THEN Raised("IndexError")
           ELSE Returned(SortedSet({Strip(k) : k \in Range(FindAllCodes(parts[2], 1))}))

----------------------------------------------------------------------------
(* parse_offered *)

\* the chain with its branches in the opposite order, the single quarters
\* first
OfferedTableShortestFirst ==
  << <<"S.",     <<"S">> >>,
     <<"Sp.",    <<"Sp">> >>,
     <<"SpS.",   <<"Sp", "S">> >>,
     <<"W.",     <<"W">> >>,
     <<"WS.",    <<"W", "S">> >>,
     <<"WSp.",   <<"W", "Sp">> >>,
     <<"WSpS.",  <<"W", "Sp", "S">> >>,
     <<"A.",     <<"A">> >>,
     <<"AS.",    <<"A", "S">> >>,
     <<"ASp.",   <<"A", "Sp">> >>,
     <<"ASpS.",  <<"A", "Sp", "S">> >>,
     <<"AW.",    <<"A", "W">> >>,
     <<"AWS.",   <<"A", "W", "S">> >>,
     <<"AWSp.",  <<"A", "W", "Sp">> >>,
     <<"AWSpS.", <<"A", "W", "Sp", "S">> >> >>

\* the if/elif chain of parse_offered, in its order: literal, result
OfferedTable ==
  << <<"AWSpS.", <<"A", "W", "Sp", "S">> >>,
     <<"AWSp.",  <<"A", "W", "Sp">> >>,
     <<"AWS.",   <<"A", "W", "S">> >>,
     <<"AW.",    <<"A", "W">> >>,
     <<"ASpS.",  <<"A", "Sp", "S">> >>,
     <<"ASp.",   <<"A", "Sp">> >>,
     <<"AS.",    <<"A", "S">> >>,
     <<"A.",     <<"A">> >>,
     <<"WSpS.",  <<"W", "Sp", "S">> >>,
     <<"WSp.",   <<"W", "Sp">> >>,
     <<"WS.",    <<"W", "S">> >>,
     <<"W.",     <<"W">> >>,
     <<"SpS.",   <<"Sp", "S">> >>,
     <<"Sp.",    <<"Sp">> >>,
     <<"S.",     <<"S">> >> >>

\* the result of the first branch of the chain whose literal is in text, []
\* when the chain falls through
FirstOffered(table, text) ==
  LET H == {i \in 1..Len(table) : Contains(text, table[i][1])}
  IN  IF H = {} THEN <<>> ELSE table[Min(H)][2]

parse_offered(course_description) ==
  IF ~Contains(course_description, "Offered:") THEN Returned(<<>>)
  ELSE LET parts == Split(course_description, "Offered: ")
       IN  IF Len(parts) < 2 THEN Raised("IndexError")
           ELSE Returned(FirstOffered(OfferedTable, parts[2]))

----------------------------------------------------------------------------
(* parse_course *)

Course(campus, department, code, name, credits, knowledge_areas, prerequisites, offered) ==
  [campus |-> campus, department |-> department, code |-> code, name |-> name,
   credits |-> credits, knowledge_areas |-> knowledge_areas,
   prerequisites |-> prerequisites, offered |-> offered]

NoCourse == Course("", "", "", "", None, <<>>, <<>>, <<>>)

NoMatch == [ok |-> FALSE, g1 |-> "", g2 |-> "", g3 |-> "", g4 |-> "", g5 |-> ""]

\* re.compile(r'^([A-Z& ]+) (\d+) (.+) \((.+).*\)(.*)$').match(s), for s
\* without a line break.  Group 1 has no digit and is followed by " " and a
\* digit, so group 2 starts at the first digit d of s and is the whole digit
\* run there.  Group 3 is greedy: it ends before the last " (" that leaves it
\* a character and has a ")" two or more places on.  Group 4 is greedy: it
\* runs to the last ")" of s (.* is then empty) and group 5 is what follows.
TitleMatch(s) ==
  LET D  == {i \in 1..Len(s) : IsDigit(Char(s, i))}
      d  == IF D = {} THEN 0 ELSE Min(D)
      e2 == d + DigitRun(s, d) - 1
      Q  == {i \in 1..Len(s) : Char(s, i) = ")"}
      q  == IF Q = {} THEN 0 ELSE Max(Q)
      P  == {i \in (e2 + 4)..(q - 2) : Char(s, i) = "(" /\ Char(s, i - 1) = " "}
      p  == IF P = {} THEN 0 ELSE Max(P)
  IN  IF /\ d >= 3
         /\ DeptRun(s, 1) = d - 1
         /\ Char(s, d - 1) = " "
         /\ e2 < Len(s)
         /\ Char(s, e2 + 1) = " "
         /\ p # 0
      THEN [ok |-> TRUE,
            g1 |-> SubSeq(s, 1, d - 2),
            g2 |-> SubSeq(s, d, e2),
            g3 |-> SubSeq(s, e2 + 2, p - 2),
            g4 |-> SubSeq(s, p + 1, q - 1),
            g5 |-> From(s, q + 1)]
      ELSE NoMatch

\* re.split(',|/', s)
RECURSIVE ReSplitAreas(_)
ReSplitAreas(s) ==
  LET P == {i \in 1..Len(s) : Char(s, i) \in {",", "/"}}
  IN  IF P = {} THEN <<s>>
      ELSE <<SubSeq(s, 1, Min(P) - 1)>> \o ReSplitAreas(From(s, Min(P) + 1))

IsLower(c) == Ord(c) >= Ord("a") /\ Ord(c) <= Ord("z")

\* titlecase.titlecase(s), the external library, as far as the model needs
\* it: the first letter of every word is capitalised (its list of small
\* words and its handling of all-capital text are not modelled).
RECURSIVE titlecase(_, _)
titlecase(s, i) ==
  IF i > Len(s) THEN ""
  ELSE LET c == Char(s, i)
           first == i = 1 \/ Char(s, i - 1) = " "
       IN  (IF first /\ IsLower(c) THEN Chr(Ord(c) - 32) ELSE c) \o titlecase(s, i + 1)

\* every fragment, whether it holds the marker or not
AllFragments(remaining, marker) == remaining

\* [j for j in remaining if marker in j]
SelectFragments(remaining, marker) ==
  SelectSeq(remaining, LAMBDA j : Contains(j, marker))

KnowledgeAreas(g5) ==
  LET pieces == ReSplitAreas(g5)
  IN  SortedStrs([i \in 1..Len(pieces) |-> Strip(pieces[i])])

\* what a call of parse_course ends with: a Course, None, or an exception
CourseOutcome(raised, none, course) ==
  [raised |-> raised, none |-> none, course |-> course]

parse_course(course_node, campus) ==
  IF course_node = <<>> THEN CourseOutcome("ValueError", FALSE, NoCourse)
  ELSE LET s == Head(course_node)
           remaining == Tail(course_node)
           m == TitleMatch(s)
           prerequisites ==
             parse_prerequisites(Join("", SelectFragments(remaining, "Prerequisite:")))
           offered ==
             parse_offered(Join("", SelectFragments(remaining, "Offered:")))
       IN  IF ~m.ok THEN CourseOutcome("", TRUE, NoCourse)
           ELSE IF prerequisites.raised # ""
             THEN CourseOutcome(prerequisites.raised, FALSE, NoCourse)
           ELSE IF offered.raised # ""
             THEN CourseOutcome(offered.raised, FALSE, NoCourse)
           ELSE CourseOutcome("", FALSE,
                  Course(campus, m.g1, m.g2, titlecase(m.g3, 1),
                         parse_credits(m.g4), KnowledgeAreas(m.g5),
                         prerequisites.val, offered.val))

----------------------------------------------------------------------------
(* export_courses *)

\* a course_key that leaves the course code out
course_key_without_code(course) == <<course.campus, course.department, "">>

course_key(course) == <<course.campus, course.department, course.code>>

\* a < b for tuples of three str: the first differing component decides
KeyLess(a, b) ==
  \/ StrLess(a[1], b[1])
  \/ a[1] = b[1] /\ StrLess(a[2], b[2])
  \/ a[1] = b[1] /\ a[2] = b[2] /\ StrLess(a[3], b[3])

\* sorted(list, key=course_key): stable, an element goes after the elements
\* whose key is not greater
RECURSIVE InsertCourse(_, _)
InsertCourse(sorted, x) ==
  IF sorted = <<>> THEN <<x>>
  ELSE IF KeyLess(course_key(x), course_key(Head(sorted))) THEN <<x>> \o sorted
  ELSE <<Head(sorted)>> \o InsertCourse(Tail(sorted), x)

\* an export that does not sort
UnsortedCourses(list) == list

RECURSIVE SortedCourses(_)
SortedCourses(list) ==
  IF list = <<>> THEN <<>>
  ELSE InsertCourse(SortedCourses(SubSeq(list, 1, Len(list) - 1)), list[Len(list)])

HeaderRow ==
  <<"Campus", "Department", "Code", "Name", "Credits", "Areas of Knowledge",
    "Prerequisites", "Offered">>

\* the row of one course; csv.writer writes None as '' and an int as str(int)
Row(course) ==
  <<course.campus, course.department, course.code, course.name,
    IF course.credits.some THEN StrOf(course.credits.val) ELSE "",
    Join(",", course.knowledge_areas), Join(",", course.prerequisites),
    Join(",", course.offered)>>

\* the rows export_courses writes: the header, then the sorted courses
export_courses(list) ==
  LET sorted == SortedCourses(list)
  IN  <<HeaderRow>> \o [i \in 1..Len(sorted) |-> Row(sorted[i])]

----------------------------------------------------------------------------
(* The program: main, extract_courses, get_courses *)

COURSE_INDICES ==
  [Bothell |-> "https://www.washington.edu/students/crscatb/",
   Seattle |-> "https://www.washington.edu/students/crscat/",
   Tacoma  |-> "https://www.washington.edu/students/crscatt/"]

\* the --campus arguments of the runs of the model
CampusLists == {<<"Seattle">>, <<"Tacoma", "Bothell">>}

\* the department links of the site
DeptLinks == {"cse.html", "math.html"}

\* the lists of distinct department links
DeptLists ==
  {<<>>} \cup {<<a>> : a \in DeptLinks}
         \cup {l \in DeptLinks \X DeptLinks : l[1] # l[2]}

\* the --department_link arguments of the runs of the model (<<>>: none)
DeptArguments == {<<>>, <<"cse.html">>, <<"math.html", "cse.html">>}

\* the course blocks (<p> nodes, as their itertext()) the site serves
CourseBlocks ==
  { <<"CSE 142 Computer Programming I (4) NW, QSR", "Basic programming. Offered: AWSpS.">>,
    <<"CSE 142 computer programming (4)", "Prerequisite: MATH 124.">>,
    <<"CSE 1420 Topics (1-5, max. 10) NW", "Prerequisite: CSE 142; CSE 143.">>,
    <<"C LIT 240 Writing in comparative literature (5) VLPA", "Offered: ", "AWSp.">>,
    <<"Courses in computer science", "CSE 142 is the first course.">>,
    <<"CSE 190 Current Topics (3) NW", "Offered:AWSp.">>,
    <<>> }

\* the pages the site serves: at most MaxBlocks course blocks in a run
Pages == SeqsUpTo(CourseBlocks, MaxBlocks)

\* parse_course of every block of the site on every campus, computed once
ParsedBlocks ==
  [node \in CourseBlocks, campus \in DOMAIN COURSE_INDICES |-> parse_course(node, campus)]

\* a return value of get_courses in the list of the comprehension
NoneResult == [none |-> TRUE, list |-> <<>>]

ListResult(list) == [none |-> FALSE, list |-> list]

RECURSIVE ChainLists(_)
ChainLists(rs) ==
  IF rs = <<>> THEN <<>> ELSE Head(rs).list \o ChainLists(Tail(rs))

Init ==
  /\ pc = "extract"
  /\ campuses \in CampusLists
  /\ department_links \in DeptArguments
  /\ ci = 1
  /\ depts = <<>> /\ di = 0 /\ results = <<>>
  /\ items = <<>> /\ idx = 0 /\ dept_courses = <<>>
  /\ courses = <<>> /\ output = <<>> /\ error = "" /\ fetched = 0
  /\ arg = "" /\ ret = ""

\* extract_courses, loop body: department_links is given
UseDepartmentLinks ==
  /\ pc = "extract" /\ ci <= Len(campuses)
  /\ department_links # <<>>
  /\ depts' = department_links
  /\ di' = 1 /\ results' = <<>>
  /\ pc' = "comprehension"
  /\ UNCHANGED <<campuses, department_links, ci, items, idx, dept_courses,
                 courses, output, error, fetched, arg, ret>>

\* extract_courses, loop body: get_department_links answers 200; the links
\* are a set, iterated in an order of its own
GetDepartmentLinks ==
  /\ pc = "extract" /\ ci <= Len(campuses)
  /\ department_links = <<>>
  /\ \E links \in DeptLists : depts' = links
  /\ di' = 1 /\ results' = <<>>
  /\ pc' = "comprehension"
  /\ UNCHANGED <<campuses, department_links, ci, items, idx, dept_courses,
                 courses, output, error, fetched, arg, ret>>

\* get_department_links: the index page does not answer 200
GetDepartmentLinksError ==
  /\ pc = "extract" /\ ci <= Len(campuses)
  /\ department_links = <<>>
  /\ pc' = "raised" /\ error' = "Exception"
  /\ UNCHANGED <<campuses, department_links, ci, depts, di, results, items,
                 idx, dept_courses, courses, output, fetched, arg, ret>>

\* get_courses: the department page does not answer 200: warning, return None
GetCoursesError ==
  /\ pc = "comprehension" /\ di <= Len(depts)
  /\ results' = Append(results, NoneResult)
  /\ di' = di + 1
  /\ UNCHANGED <<pc, campuses, department_links, ci, depts, items, idx,
                 dept_courses, courses, output, error, fetched, arg, ret>>

\* get_courses: the department page answers 200 with some course blocks
GetCoursesPage ==
  /\ pc = "comprehension" /\ di <= Len(depts)
  /\ \E page \in Pages :
       /\ fetched + Len(page) <= MaxBlocks
       /\ items' = page
       /\ fetched' = fetched + Len(page)
  /\ idx' = 1 /\ dept_courses' = <<>>
  /\ pc' = "get_courses"
  /\ UNCHANGED <<campuses, department_links, ci, depts, di, results, courses,
                 output, error, arg, ret>>

\* get_courses, loop body: parse_course returns a Course
ParseCourseAppend ==
  /\ pc = "get_courses" /\ idx <= Len(items)
  /\ LET course == ParsedBlocks[items[idx], campuses[ci]]
     IN  /\ course.raised = "" /\ ~course.none
         /\ dept_courses' = Append(dept_courses, course.course)
  /\ idx' = idx + 1
  /\ UNCHANGED <<pc, campuses, department_links, ci, depts, di, results,
                 items, courses, output, error, fetched, arg, ret>>

\* get_courses, loop body: parse_course returns None: warning, continue
ParseCourseSkip ==
  /\ pc = "get_courses" /\ idx <= Len(items)
  /\ LET course == ParsedBlocks[items[idx], campuses[ci]]
     IN  course.raised = "" /\ course.none
  /\ idx' = idx + 1
  /\ UNCHANGED <<pc, campuses, department_links, ci, depts, di, results,
                 items, dept_courses, courses, output, error, fetched, arg, ret>>

\* get_courses, loop body: parse_course raises; nothing catches it
ParseCourseRaise ==
  /\ pc = "get_courses" /\ idx <= Len(items)
  /\ LET course == ParsedBlocks[items[idx], campuses[ci]]
     IN  /\ course.raised # ""
         /\ error' = course.raised
  /\ pc' = "raised"
  /\ UNCHANGED <<campuses, department_links, ci, depts, di, results, items,
                 idx, dept_courses, courses, output, fetched, arg, ret>>

\* get_courses: return courses (its locals end with the call)
ReturnCourses ==
  /\ pc = "get_courses" /\ idx > Len(items)
  /\ results' = Append(results, ListResult(dept_courses))
  /\ di' = di + 1
  /\ items' = <<>> /\ idx' = 0 /\ dept_courses' = <<>>
  /\ pc' = "comprehension"
  /\ UNCHANGED <<campuses, department_links, ci, depts, courses, output,
                 error, fetched, arg, ret>>

\* extract_courses: courses += list(itertools.chain.from_iterable(results));
\* the list of the comprehension is a temporary
ChainResults ==
  /\ pc = "comprehension" /\ di > Len(depts)
  /\ \A i \in 1..Len(results) : ~results[i].none
  /\ courses' = courses \o ChainLists(results)
  /\ ci' = ci + 1
  /\ results' = <<>> /\ di' = 0
  /\ pc' = "extract"
  /\ UNCHANGED <<campuses, department_links, depts, items, idx, dept_courses,
                 output, error, fetched, arg, ret>>

\* extract_courses: chain.from_iterable meets a None: TypeError
ChainNone ==
  /\ pc = "comprehension" /\ di > Len(depts)
  /\ \E i \in 1..Len(results) : results[i].none
  /\ pc' = "raised" /\ error' = "TypeError"
  /\ UNCHANGED <<campuses, department_links, ci, depts, di, results, items,
                 idx, dept_courses, courses, output, fetched, arg, ret>>

\* main: extract_courses has returned; export_courses
ExportCourses ==
  /\ pc = "extract" /\ ci > Len(campuses)
  /\ output' = export_courses(courses)
  /\ pc' = "exported"
  /\ UNCHANGED <<campuses, department_links, ci, depts, di, results, items,
                 idx, dept_courses, courses, error, fetched, arg, ret>>

Next ==
  \/ UseDepartmentLinks
  \/ GetDepartmentLinks
  \/ GetDepartmentLinksError
  \/ GetCoursesError
  \/ GetCoursesPage
  \/ ParseCourseAppend
  \/ ParseCourseSkip
  \/ ParseCourseRaise
  \/ ReturnCourses
  \/ ChainResults
  \/ ChainNone
  \/ ExportCourses

Spec == Init /\ [][Next]_vars

----------------------------------------------------------------------------
(* The function specifications: one call of a parser on an argument *)

\* the program's own state, unused while one function is under test
NoProgram ==
  /\ campuses = <<>> /\ department_links = <<>> /\ ci = 0 /\ depts = <<>>
  /\ di = 0 /\ results = <<>> /\ items = <<>> /\ idx = 0
  /\ dept_courses = <<>> /\ courses = <<>> /\ output = <<>> /\ error = ""
  /\ fetched = 0

\* the texts made of at most n of the given parts
RECURSIVE TextsOf(_, _)
TextsOf(parts, n) ==
  IF n = 0 THEN {""}
  ELSE {t \o p : t \in TextsOf(parts, n - 1), p \in parts \cup {""}}

CreditChars == {"0", "1", "3", "-", "/", "V", "."}

CreditExprs == TextsOf(CreditChars, MaxCreditLen)

InitCredits ==
  /\ pc = "parse_credits" /\ arg \in CreditExprs /\ ret = None /\ NoProgram

CallParseCredits ==
  /\ pc = "parse_credits"
  /\ ret' = parse_credits(arg)
  /\ pc' = "parse_credits:done"
  /\ UNCHANGED <<arg, pipeline_vars>>

SpecCredits == InitCredits /\ [][CallParseCredits]_vars

\* description texts for the two decoders: the markers, course codes, a
\* quarter code and separators, in any order
TextParts == {"Prerequisite:", "Offered:", " ", " CSE 142", "MATH 124", " A.", "CSE 142 "}

DecoderTexts == TextsOf(TextParts, MaxTextParts)

InitDecoders ==
  /\ pc = "decoders" /\ arg \in DecoderTexts /\ ret = Returned(<<>>) /\ NoProgram

CallParsePrerequisites ==
  /\ pc = "decoders"
  /\ ret' = parse_prerequisites(arg)
  /\ pc' = "parse_prerequisites:done"
  /\ UNCHANGED <<arg, pipeline_vars>>

CallParseOffered ==
  /\ pc = "decoders"
  /\ ret' = parse_offered(arg)
  /\ pc' = "parse_offered:done"
  /\ UNCHANGED <<arg, pipeline_vars>>

NextDecoders == CallParsePrerequisites \/ CallParseOffered

SpecDecoders == InitDecoders /\ [][NextDecoders]_vars

\* description texts for parse_offered: the marker with and without its
\* space, and every literal of the chain
OfferedParts ==
  {"Offered:", "Offered: ", "TBA "} \cup {OfferedTable[i][1] : i \in 1..Len(OfferedTable)}

OfferedTexts == TextsOf(OfferedParts, MaxOfferedParts)

InitOffered ==
  /\ pc = "decoders" /\ arg \in OfferedTexts /\ ret = Returned(<<>>) /\ NoProgram

SpecOffered == InitOffered /\ [][CallParseOffered]_vars

\* title lines for parse_course: a head, then a knowledge-area expression
TitleHeads ==
  {"CSE 142 intro to programming (4)", "Q SCI 381 Topics (1-5, max. 10)",
   "Courses in computer science"}

AreaParts == {" NW", "VLPA", ",", "/ "}

\* body fragments for parse_course
Fragments ==
  {"Prerequisite: ", "CSE 142. ", "Prerequisite: MATH 124. Offered: ", "AWSp.",
   "Offered:W.", "Offered: A. Prerequisite: CSE 143"}

\* the course blocks of the parse_course specification: every title line with
\* a plain body, and every head with every list of body fragments
CourseNodes ==
  {<<h \o a, "Offered: AWSp.">> : h \in TitleHeads, a \in TextsOf(AreaParts, MaxAreaParts)}
    \cup {<<h>> \o b : h \in TitleHeads, b \in SeqsUpTo(Fragments, MaxFragments)}
    \cup {<<>>}

InitCourse ==
  /\ pc = "parse_course" /\ arg \in CourseNodes
  /\ ret = CourseOutcome("", TRUE, NoCourse) /\ NoProgram

CallParseCourse ==
  /\ pc = "parse_course"
  /\ \E campus \in DOMAIN COURSE_INDICES : ret' = parse_course(arg, campus)
  /\ pc' = "parse_course:done"
  /\ UNCHANGED <<arg, pipeline_vars>>

SpecCourse == InitCourse /\ [][CallParseCourse]_vars

----------------------------------------------------------------------------
(* The claims *)

\* C1 (as stated): when get_courses could not read a department's page, the
\* comprehension's list holds a None for it; the step that follows the last
\* department then goes on (the run does not abort) and adds to courses the
\* records of every other department of the list, and nothing for the None.
C1_FailedDepartmentIsSkipped ==
  [][(pc = "comprehension" /\ di > Len(depts))
       => (pc' = "extract" /\ courses' = courses \o ChainLists(results))]_vars

\* C2 (as stated): parse_credits(s) is the value of the whole leading digit
\* run of s when the run is not empty and no '-' or '/' follows it, and None
\* in every other case.
C2_LeadingRunOrNone ==
  pc = "parse_credits:done" =>
    LET n == DigitRun(arg, 1)
    IN  ret = IF n >= 1 /\ ~(n < Len(arg) /\ Char(arg, n + 1) \in {"-", "/"})
              THEN Some(IntOf(SubSeq(arg, 1, n)))
              ELSE None

\* the title line of a course block matches the title pattern
TitleMatches(node) == node # <<>> /\ TitleMatch(Head(node)).ok

\* C3 (as stated): the knowledge_areas of a record parse_course produced are
\* sorted ascending without a duplicate and without an empty string, and are
\* the empty sequence when nothing follows the credit parenthetical.
C3_AreasSortedDistinctNonEmpty ==
  (pc = "parse_course:done" /\ ret.raised = "" /\ ~ret.none) =>
    LET ka == ret.course.knowledge_areas
    IN  /\ \A i \in 1..(Len(ka) - 1) : StrLess(ka[i], ka[i + 1])
        /\ \A i \in 1..Len(ka) : ka[i] # ""
        /\ TitleMatch(Head(arg)).g5 = "" => ka = <<>>

\* the orderings of a list of n elements
Orderings(n) == {f \in [1..n -> 1..n] : \A i, j \in 1..n : f[i] = f[j] => i = j}

Reordered(list, f) == [i \in 1..Len(list) |-> list[f[i]]]

\* f keeps the records that share an identity key in their relative order
KeepsTies(list, f) ==
  \A i, j \in 1..Len(list) :
    (i < j /\ course_key(list[f[i]]) = course_key(list[f[j]])) => f[i] < f[j]

\* C4 (as stated): export_courses writes the same rows for every ordering of
\* the collected records.
C4_AnyOrderSameRows ==
  pc = "exported" =>
    \A f \in Orderings(Len(courses)) : export_courses(Reordered(courses, f)) = output

\* C4 (amended): export_courses writes the same rows for every ordering of
\* the collected records that keeps the records sharing an identity key in
\* their relative order.
C4_SameRowsUpToTies ==
  pc = "exported" =>
    \A f \in Orderings(Len(courses)) :
      KeepsTies(courses, f) => export_courses(Reordered(courses, f)) = output

\* C4: three records were collected, two of them share an identity key and
\* differ, and a record arrived before one of a smaller key.
C4_Witness ==
  /\ pc = "exported" /\ Len(courses) >= 3
  /\ \E i, j \in 1..Len(courses) :
       i # j /\ course_key(courses[i]) = course_key(courses[j]) /\ courses[i] # courses[j]
  /\ \E i, j \in 1..Len(courses) :
       i < j /\ KeyLess(course_key(courses[j]), course_key(courses[i]))

\* how many times x occurs in list
Count(list, x) == Cardinality({i \in 1..Len(list) : list[i] = x})

\* C5: the rows after the header are in non-decreasing order of (campus,
\* department, code), each compared as a string, and are the rows of the
\* collected records, one row per record, each as often as it was collected.
C5_RowsSortedAndComplete ==
  pc = "exported" =>
    LET rows == Tail(output)
    IN  /\ Head(output) = HeaderRow
        /\ Len(rows) = Len(courses)
        /\ \A i \in 1..(Len(rows) - 1) :
             ~KeyLess(SubSeq(rows[i + 1], 1, 3), SubSeq(rows[i], 1, 3))
        /\ \A i \in 1..Len(courses) :
             Count(rows, Row(courses[i])) =
               Cardinality({j \in 1..Len(courses) : Row(courses[j]) = Row(courses[i])})

\* C5: records arrived out of key order, two of them with the same key, and
\* were exported.
C5_Witness ==
  /\ pc = "exported"
  /\ \E i, j \in 1..Len(courses) :
       i < j /\ KeyLess(course_key(courses[j]), course_key(courses[i]))
  /\ \E i, j \in 1..Len(courses) :
       i # j /\ course_key(courses[i]) = course_key(courses[j])

\* the course block has a title line, and it does not match the title pattern
TitleFails(node) == node # <<>> /\ ~TitleMatch(Head(node)).ok

\* C6 (as stated): for a page with a block whose title line does not match,
\* when the loop of get_courses is over, whatever ended it, the blocks whose
\* title line matches have each given one record, in block order, with
\* campus, department, code and name set, and the other blocks none.
C6_OneRecordPerMatchingBlock ==
  (/\ \/ pc = "get_courses" /\ idx > Len(items)
      \/ pc = "raised" /\ error \in {"IndexError", "ValueError"}
   /\ \E k \in 1..Len(items) : TitleFails(items[k])) =>
    LET m == SelectSeq(items, TitleMatches)
    IN  /\ Len(dept_courses) = Len(m)
        /\ \A k \in 1..Len(m) :
             /\ dept_courses[k].campus = campuses[ci]
             /\ dept_courses[k].department = TitleMatch(Head(m[k])).g1
             /\ dept_courses[k].code = TitleMatch(Head(m[k])).g2
             /\ dept_courses[k].name # ""

\* the text between the first 'Prerequisite:' marker and the first
\* 'Offered:' marker (the end of the text when there is none)
PrerequisiteClause(text) ==
  LET p == Find(text, "Prerequisite:", 1)
      o == Find(text, "Offered:", 1)
      last == IF o = 0 THEN Len(text) ELSE o - 1
  IN  IF p + Len("Prerequisite:") > last THEN ""
      ELSE SubSeq(text, p + Len("Prerequisite:"), last)

\* C7 (as stated): for a text with a 'Prerequisite:' marker the result is the
\* sorted, duplicate-free list of the trimmed course codes found after the
\* marker and before the first 'Offered:'; for a text without, the empty list.
C7_CodesOfThePrerequisiteClause ==
  pc = "parse_prerequisites:done" =>
    ret = IF ~Contains(arg, "Prerequisite:") THEN Returned(<<>>)
          ELSE Returned(SortedSet({Strip(k) :
                 k \in Range(FindAllCodes(PrerequisiteClause(arg), 1))}))

\* the literals of the claim's table, in its order
ClaimedLiterals ==
  <<"AWSpS.", "AWSp.", "AWS.", "AW.", "ASpS.", "ASp.", "AS.", "A.",
    "WSpS.", "WSp.", "WS.", "W.", "SpS.", "Sp.", "S.">>

\* the quarters a literal names, in the order A, W, Sp, S
OwnTokens(c) ==
  (IF Contains(c, "A") THEN <<"A">> ELSE <<>>)
    \o (IF Contains(c, "W") THEN <<"W">> ELSE <<>>)
    \o (IF Contains(c, "Sp") THEN <<"Sp">> ELSE <<>>)
    \o (IF Contains(c, "S.") THEN <<"S">> ELSE <<>>)

\* the tokens of the first claimed literal that occurs in text
FirstClaimed(text) ==
  LET H == {i \in 1..Len(ClaimedLiterals) : Contains(text, ClaimedLiterals[i])}
  IN  IF H = {} THEN <<>> ELSE OwnTokens(ClaimedLiterals[Min(H)])

\* the text after the first 'Offered: ' marker
AfterMarker(text) == From(text, Find(text, "Offered: ", 1) + Len("Offered: "))

\* the text after the first 'Offered: ' marker, up to the next one if any
UpToNextMarker(text) ==
  LET n == Find(text, "Offered: ", 1)
  IN  IF n = 0 THEN text ELSE SubSeq(text, 1, n - 1)

\* C8 (as stated): for a text with the marker 'Offered: ', the result is the
\* token list of the first literal of the table that occurs anywhere in the
\* text after the marker, the empty list when none does.
C8_FirstLiteralAfterMarker ==
  (pc = "parse_offered:done" /\ Contains(arg, "Offered: ")) =>
    ret = Returned(FirstClaimed(AfterMarker(arg)))

\* C8 (amended): for a text with the marker 'Offered: ', the result is the
\* token list of the first literal of the table that occurs in the text
\* between the first marker and the next 'Offered: ' marker (the end of the
\* text when there is none), the empty list when none does; so 'Offered: '
\* followed by exactly a literal c gives c's own tokens.
C8_FirstLiteralUpToNextMarker ==
  (pc = "parse_offered:done" /\ Contains(arg, "Offered: ")) =>
    /\ ret = Returned(FirstClaimed(UpToNextMarker(AfterMarker(arg))))
    /\ \A i \in 1..Len(ClaimedLiterals) :
         arg = "Offered: " \o ClaimedLiterals[i]
           => ret = Returned(OwnTokens(ClaimedLiterals[i]))

\* C8: 'Offered: WSpS.', which contains the shorter literals SpS. and S., was
\* decoded.
C8_Witness ==
  /\ pc = "parse_offered:done" /\ arg = "Offered: WSpS."
  /\ ret = Returned(<<"W", "Sp", "S">>)

\* C9 (as stated): for a block whose title line matches, the record's
\* prerequisites and offered are the two decoders' results for the
\* concatenation of all the body fragments (taken where neither decoder
\* raises on that concatenation and parse_course returned).
C9_FromAllFragments ==
  LET text == Join("", Tail(arg))
  IN  (/\ pc = "parse_course:done" /\ TitleMatches(arg)
       /\ ret.raised = ""
       /\ parse_prerequisites(text).raised = ""
       /\ parse_offered(text).raised = "") =>
        /\ ~ret.none
        /\ ret.course.prerequisites = parse_prerequisites(text).val
        /\ ret.course.offered = parse_offered(text).val

\* the concatenation of the fragments of list that contain marker
RECURSIVE JoinWith(_, _)
JoinWith(list, marker) ==
  IF list = <<>> THEN ""
  ELSE (IF Contains(Head(list), marker) THEN Head(list) ELSE "")
         \o JoinWith(Tail(list), marker)

\* C9 (amended): for a block whose title line matches, prerequisites are the
\* Prerequisite Extractor's result for the concatenation of the body
\* fragments that contain 'Prerequisite:', and offered the Term-Schedule
\* Decoder's result for the concatenation of the body fragments that contain
\* 'Offered:'; when one of the two raises, parse_course raises the same.
C9_FromMarkedFragments ==
  (pc = "parse_course:done" /\ TitleMatches(arg)) =>
    LET pre == parse_prerequisites(JoinWith(Tail(arg), "Prerequisite:"))
        off == parse_offered(JoinWith(Tail(arg), "Offered:"))
    IN  IF pre.raised # "" \/ off.raised # ""
        THEN ret.raised = "IndexError" /\ ret.raised \in {pre.raised, off.raised}
        ELSE /\ ret.raised = "" /\ ~ret.none
             /\ ret.course.prerequisites = pre.val
             /\ ret.course.offered = off.val

\* C9: a record whose marker and course code lay in different fragments: its
\* prerequisites are not those of the whole body.
C9_Witness ==
  /\ pc = "parse_course:done" /\ TitleMatches(arg)
  /\ ret.raised = "" /\ ~ret.none
  /\ Len(arg) >= 3
  /\ parse_prerequisites(Join("", Tail(arg))).raised = ""
  /\ ret.course.prerequisites # parse_prerequisites(Join("", Tail(arg))).val

\* C10 (as stated): parse_offered and parse_prerequisites return a list for
\* every text and never raise.
C10_DecodersNeverRaise ==
  pc \in {"parse_prerequisites:done", "parse_offered:done"} => ret.raised = ""

=============================================================================
